---------------------------- MODULE Spec2Model ----------------------------
(***************************************************************************)
(* The tenant store of src/contexts/RestaurantContext.tsx                  *)
(* (RestaurantProvider): its React state, the load and save effects        *)
(* against localStorage, and every operation the context exposes.          *)
(*                                                                         *)
(* React state.  The variables menuItems .. isInitialized hold the state   *)
(* with every queued update applied, i.e. the values the next render will  *)
(* show.  `view` holds the values of the last render: the values the       *)
(* closures of the exposed functions and of the effects captured.  A       *)
(* handler call changes the state variables at once (setState calls are    *)
(* applied in call order, functional updaters on the queued value) and     *)
(* reads `view` wherever the code reads a state variable directly.         *)
(* Render commits: it refreshes `view` and runs the save effect.           *)
(***************************************************************************)
EXTENDS Integers, Sequences, FiniteSets, TLC

(***************************************************************************)
(* Bounds of the model.                                                    *)
(***************************************************************************)
MaxOps == 3        \* operation calls explored after initialization

\* the calls explored when every operation, with every input, may be called
MaxCalls == 2

(***************************************************************************)
(* Program constants.                                                      *)
(***************************************************************************)
LOG_CAP == 100     \* logActivity: .slice(0, 100)

Min(a, b) == IF a < b THEN a ELSE b

Take(s, n) == SubSeq(s, 1, Min(n, Len(s)))

Range(s) == {s[i] : i \in 1..Len(s)}

\* Array.prototype.map
Map(s, F(_)) == [i \in 1..Len(s) |-> F(s[i])]

\* Array.prototype.filter
Filter(s, P(_)) == SelectSeq(s, P)

(***************************************************************************)
(* Text.  A string read from or written to localStorage, or handed to      *)
(* importBusinessData, is one of:                                          *)
(*   NoItem             getItem's null: the key holds nothing              *)
(*   Str(s)             a string that is not JSON ("undefined", "", ...)   *)
(*   JText(v)           the JSON text of the value v                       *)
(* JSON.parse accepts only the last; JSON.stringify produces it.           *)
(***************************************************************************)
NoItem == [k |-> "null"]

Str(s) == [k |-> "str", s |-> s]

JText(v) == [k |-> "json", v |-> v]

UndefinedStr == Str("undefined")

EmptyStr == Str("")

Malformed == Str("{bad")

\* JSON.stringify(v) for an array or object v of the store
Stringify(v) == JText(v)

\* JSON.parse(t) throws a SyntaxError
ParseThrows(t) == t.k # "json"

\* JSON.parse(t) when it does not throw
Parse(t) == t.v

\* Truthy with the text of an empty array taken for falsy, as the array is not
TruthyNonEmpty(t) == t # NoItem /\ t # EmptyStr /\ t # Stringify(<< >>)

\* `if (t)` for a string-or-null t: null and "" are falsy
Truthy(t) == t # NoItem /\ t # EmptyStr

(***************************************************************************)
(* Seed data of ../constants and ../types (not part of the source slice):  *)
(* opaque samples.                                                         *)
(***************************************************************************)
\* Category names and the settings name are sequences of characters, so that
\* trim, replace and toUpperCase are computed on them.
Starters == << "S" >>

Mains == << "M" >>

MENU_ITEMS ==
    << [id |-> "m1", name |-> "Tea", category |-> Starters],
       [id |-> "m2", name |-> "Rice", category |-> Mains] >>

\* Object.values(Category)
CategoryValues == << Starters, Mains >>

INITIAL_SETTINGS == [name |-> << "m", "e", "n", "u" >>, packingCharge |-> 10]

(***************************************************************************)
(* tenantId and the settings name derived from it (line 86):               *)
(* tenantId.replace(/-/g, ' ').toUpperCase(), on the characters.           *)
(***************************************************************************)
tenantId == << "d", "e", "f", "a", "u", "l", "t", "-", "c", "a", "f", "e" >>

ToUpper(c) ==
    CASE c = "a" -> "A" [] c = "c" -> "C" [] c = "d" -> "D" [] c = "e" -> "E"
      [] c = "f" -> "F" [] c = "l" -> "L" [] c = "t" -> "T" [] c = "u" -> "U"
      [] OTHER -> c

ReplaceHyphen(c) == IF c = "-" THEN " " ELSE c

TenantName(id) == [i \in 1..Len(id) |-> ToUpper(ReplaceHyphen(id[i]))]

\* getKeys: the six storage keys of the tenant
Keys == {"menu", "orders", "cats", "discounts", "settings", "log"}

\* useState's initial value of discountMilestones
DefaultMilestones ==
    << [threshold |-> 1000, percentage |-> 10],
       [threshold |-> 1500, percentage |-> 15],
       [threshold |-> 2000, percentage |-> 20] >>


(***************************************************************************)
(* State.                                                                  *)
(***************************************************************************)
VARIABLES
    menuItems,          \* useState<MenuItem[]>
    categories,         \* useState<string[]>
    orders,             \* useState<Order[]>
    lastPlacedOrder,    \* useState<Order | null>, as a sequence of 0 or 1 order
    settings,           \* useState<RestaurantSettings>
    activityLog,        \* useState<ActivityEntry[]>
    discountMilestones, \* useState<DiscountMilestone[]>
    isAdmin,            \* useState(false)
    isInitialized,      \* useState(false)
    view,               \* the values of the last render, captured by the closures
    storage,            \* localStorage: key -> text
    phase,              \* "mounted": first render done, effects not yet run;
                        \* "loaded": load effect run, its updates queued;
                        \* "running": rendered with the loaded state
    pending,            \* a state update is queued: a render is due
    dirty,              \* a dependency of the save effect changed since the last render
    clock,              \* Date.now(), advancing from one turn to the next
    nops,               \* operation calls so far
    saves,              \* runs of the save effect that wrote
    storage0,           \* storage as the load effect read it
    lastOp,             \* the last operation called
    lastArgs,           \* the arguments it was called with
    lastRet,            \* its return value (TRUE for a void operation)
    lastText,           \* the text handed to the last importBusinessData
    prevLog,            \* << the activity log before the last logActivity >>, << >> before the first
    tog,                \* the run of consecutive toggleOrderTakeaway calls in progress
    exported,           \* the text the last exportBusinessData returned
    firstStore          \* << the values an earlier store of this tenant held when
                        \* it went away >>, << >> while the first store lives

state == << menuItems, categories, orders, lastPlacedOrder, settings, activityLog,
            discountMilestones, isAdmin, isInitialized >>

history ==
    << nops, saves, storage0, lastOp, lastArgs, lastRet, lastText, prevLog, tog,
       exported, firstStore >>

vars == << state, view, storage, phase, pending, dirty, clock, history >>

\* What a render captures of the state.
Snapshot(mi, ca, od, dm, se, al, init) ==
    [ menuItems |-> mi, categories |-> ca, orders |-> od, discountMilestones |-> dm,
      settings |-> se, activityLog |-> al, isInitialized |-> init ]

NoTog == [id |-> "", n |-> 0, charge |-> 0, same |-> TRUE, before |-> <<>>]

(***************************************************************************)
(* Stored data a previous session of the same tenant can have left.        *)
(***************************************************************************)
\* an activity log of n entries, newest first, all older than this session
OldLog(n) ==
    [i \in 1..n |-> [id |-> -i, type |-> "UPDATE", entity |-> "SETTINGS", timestamp |-> -i]]

OldOrder ==
    [ id |-> 0, items |-> 50, status |-> "PENDING", timestamp |-> -1,
      isTakeaway |-> TRUE, packingCharge |-> 10, total |-> 60 ]

OldSettings == [name |-> << "C", "A", "F", "E" >>, packingCharge |-> 10]

EmptyStore == [k \in Keys |-> NoItem]

SessionStore(n) ==
    [ menu |-> Stringify(<< MENU_ITEMS[1] >>),
      cats |-> Stringify(CategoryValues),
      orders |-> Stringify(<< OldOrder >>),
      discounts |-> Stringify(DefaultMilestones),
      settings |-> Stringify(OldSettings),
      log |-> Stringify(OldLog(n)) ]

\* the stores the runs start from: a first visit, and a returning tenant
InitialStores == { EmptyStore, SessionStore(2) }

\* a returning tenant whose activity log is full, or one short of full
FullLogStores == { SessionStore(LOG_CAP - 1), SessionStore(LOG_CAP) }

\* every combination of the six keys each holding nothing, "undefined", "",
\* text that is not JSON, or the JSON text of a value of its type
StoredTexts(k) ==
    { NoItem, UndefinedStr, EmptyStr, Malformed,
      CASE k = "menu" -> Stringify(<< MENU_ITEMS[2] >>)
        [] k = "cats" -> Stringify(<< Mains >>)
        [] k = "orders" -> Stringify(<< OldOrder >>)
        [] k = "discounts" -> Stringify(<< [threshold |-> 500, percentage |-> 5] >>)
        [] k = "settings" -> Stringify(OldSettings)
        [] k = "log" -> Stringify(OldLog(1)) }

AnyStores ==
    { [ menu |-> a, cats |-> b, orders |-> c, discounts |-> d, settings |-> e, log |-> f ] :
        a \in StoredTexts("menu"), b \in StoredTexts("cats"),
        c \in StoredTexts("orders"), d \in StoredTexts("discounts"),
        e \in StoredTexts("settings"), f \in StoredTexts("log") }

(***************************************************************************)
(* Init: the provider after its first render (lines 36-53), effects not    *)
(* yet run.                                                                *)
(***************************************************************************)
\* the values of the first render: useState's initial values (lines 41-53)
FirstRender ==
    Snapshot(<<>>, <<>>, <<>>, DefaultMilestones, INITIAL_SETTINGS, <<>>, FALSE)

InitState ==
    /\ menuItems = <<>>
    /\ categories = <<>>
    /\ orders = <<>>
    /\ lastPlacedOrder = <<>>
    /\ settings = INITIAL_SETTINGS
    /\ activityLog = <<>>
    /\ discountMilestones = DefaultMilestones
    /\ isAdmin = FALSE
    /\ isInitialized = FALSE
    /\ view = FirstRender
    /\ phase = "mounted"
    /\ pending = FALSE
    /\ dirty = FALSE
    /\ clock = 0
    /\ nops = 0
    /\ saves = 0
    /\ storage0 = storage
    /\ lastOp = "none"
    /\ lastArgs = << >>
    /\ lastRet = TRUE
    /\ lastText = NoItem
    /\ prevLog = <<>>
    /\ tog = NoTog
    /\ exported = NoItem
    /\ firstStore = << >>

Init ==
    /\ storage \in InitialStores
    /\ InitState

InitFullLog ==
    /\ storage \in FullLogStores
    /\ InitState

InitAnyStore ==
    /\ storage \in AnyStores
    /\ InitState

(***************************************************************************)
(* The load effect (lines 64-97).                                          *)
(***************************************************************************)
\* the order in which the effect parses the stored values
LoadOrder == << "menu", "cats", "orders", "discounts", "settings", "log" >>

\* whether the effect hands key k's stored text t to JSON.parse
\*   menu, cats (lines 74, 77): t !== null && t !== "undefined"
\*   the other four (lines 80-89): if (t)
Parsed(k, t) ==
    IF k \in {"menu", "cats"} THEN t # NoItem /\ t # UndefinedStr
    ELSE Truthy(t)

\* the position in LoadOrder of the first JSON.parse that throws, 0 if none does
FailAt(s) ==
    LET bad == {i \in 1..Len(LoadOrder) :
                   Parsed(LoadOrder[i], s[LoadOrder[i]]) /\ ParseThrows(s[LoadOrder[i]])}
    IN IF bad = {} THEN 0 ELSE CHOOSE i \in bad : \A j \in bad : i <= j

\* whether the try block reaches and completes the statement for LoadOrder[i]
Reached(s, i) == FailAt(s) = 0 \/ i < FailAt(s)

\* the catch block (lines 91-96) sets these after a failure; mi and ca are the
\* values queued before it
CatchMenu(mi) == MENU_ITEMS

\* CatchCategories with line 94 left out
CatchCategoriesKept(ca) == ca

CatchCategories(ca) == CategoryValues

CatchInitialized == TRUE

\* The state the effect's queued updates produce, from the pre-load state cur
\* (a Snapshot) and the storage s.
LoadState(cur, s) ==
    LET failed == FailAt(s) # 0
        val(k, i, absent, old) ==
            IF ~Reached(s, i) THEN old
            ELSE IF Parsed(k, s[k]) THEN Parse(s[k])
            ELSE absent
    IN Snapshot(
         IF failed THEN CatchMenu(val("menu", 1, MENU_ITEMS, cur.menuItems))
         ELSE val("menu", 1, MENU_ITEMS, cur.menuItems),
         IF failed THEN CatchCategories(val("cats", 2, CategoryValues, cur.categories))
         ELSE val("cats", 2, CategoryValues, cur.categories),
         val("orders", 3, cur.orders, cur.orders),
         val("discounts", 4, cur.discountMilestones, cur.discountMilestones),
         val("settings", 5,
             [INITIAL_SETTINGS EXCEPT !.name = TenantName(tenantId)], cur.settings),
         val("log", 6, cur.activityLog, cur.activityLog),
         IF failed THEN CatchInitialized ELSE TRUE)

(***************************************************************************)
(* The save effect (lines 99-108), run with the rendered values v.         *)
(***************************************************************************)
\* line 100: if (!isInitialized) return
SaveGate(v) == v.isInitialized

\* SaveWrites with the write of the activity log left out
SaveWritesNoLog(v, s) ==
    [ s EXCEPT !["menu"] = Stringify(v.menuItems),
               !["cats"] = Stringify(v.categories),
               !["orders"] = Stringify(v.orders),
               !["discounts"] = Stringify(v.discountMilestones),
               !["settings"] = Stringify(v.settings) ]

\* lines 102-107: the six setItem calls on the storage s
SaveWrites(v, s) ==
    [ s EXCEPT !["menu"] = Stringify(v.menuItems),
               !["cats"] = Stringify(v.categories),
               !["orders"] = Stringify(v.orders),
               !["discounts"] = Stringify(v.discountMilestones),
               !["settings"] = Stringify(v.settings),
               !["log"] = Stringify(v.activityLog) ]

SaveEffect(v, s) == IF SaveGate(v) THEN SaveWrites(v, s) ELSE s

Current ==
    Snapshot(menuItems, categories, orders, discountMilestones, settings,
             activityLog, isInitialized)

\* Mount: both effects run after the first render, in declaration order: the load
\* effect queues its updates, the save effect sees the first render's values.
LoadEffect ==
    /\ phase = "mounted"
    /\ LET st == LoadState(Current, storage)
       IN /\ menuItems' = st.menuItems
          /\ categories' = st.categories
          /\ orders' = st.orders
          /\ discountMilestones' = st.discountMilestones
          /\ settings' = st.settings
          /\ activityLog' = st.activityLog
          /\ isInitialized' = st.isInitialized
    /\ storage0' = storage
    /\ storage' = SaveEffect(view, storage)
    /\ saves' = IF SaveGate(view) THEN saves + 1 ELSE saves
    /\ phase' = "loaded"
    /\ pending' = TRUE
    /\ dirty' = TRUE
    /\ UNCHANGED << lastPlacedOrder, isAdmin, view, clock, nops, lastOp, lastArgs,
                    lastRet, lastText, prevLog, tog, exported, firstStore >>

\* A render commits the queued updates: the closures now hold the new values, and
\* the save effect runs if one of its dependencies changed.
Render ==
    /\ pending
    /\ view' = Current
    /\ storage' = IF dirty THEN SaveEffect(Current, storage) ELSE storage
    /\ saves' = IF dirty /\ SaveGate(Current) THEN saves + 1 ELSE saves
    /\ phase' = IF phase = "loaded" THEN "running" ELSE phase
    /\ pending' = FALSE
    /\ dirty' = FALSE
    /\ clock' = clock + 1
    /\ UNCHANGED << state, nops, storage0, lastOp, lastArgs, lastRet, lastText,
                    prevLog, tog, exported, firstStore >>

\* A new store for the same tenantId (the page is loaded again): the provider
\* mounts anew with useState's initial values (lines 36-53) over the storage the
\* earlier store left.  firstStore keeps what the earlier store held, and whether
\* its last save had run.
Remount ==
    /\ phase = "running"
    /\ firstStore = << >>
    /\ firstStore' = << [ values |-> Current, isAdmin |-> isAdmin,
                          lastPlacedOrder |-> lastPlacedOrder,
                          saved |-> ~pending ] >>
    /\ menuItems' = FirstRender.menuItems
    /\ categories' = FirstRender.categories
    /\ orders' = FirstRender.orders
    /\ lastPlacedOrder' = << >>
    /\ settings' = FirstRender.settings
    /\ activityLog' = FirstRender.activityLog
    /\ discountMilestones' = FirstRender.discountMilestones
    /\ isAdmin' = FALSE
    /\ isInitialized' = FirstRender.isInitialized
    /\ view' = FirstRender
    /\ phase' = "mounted"
    /\ pending' = FALSE
    /\ dirty' = FALSE
    /\ clock' = clock + 1
    /\ saves' = 0
    /\ lastOp' = "none"
    /\ lastArgs' = << >>
    /\ lastRet' = TRUE
    /\ lastText' = NoItem
    /\ prevLog' = << >>
    /\ tog' = NoTog
    /\ exported' = NoItem
    /\ UNCHANGED << storage, storage0, nops >>

(***************************************************************************)
(* Operations.  Each is enabled once the store runs (the context's         *)
(* consumers render after the mount effects), and counts against MaxOps.   *)
(***************************************************************************)
\* The bookkeeping of a call of operation `name` with arguments `args` returning
\* `ret`; `deps` says whether it replaced one of the six persisted values, `other`
\* whether it changed isAdmin or lastPlacedOrder.
Call(name, args, ret, deps, other) ==
    /\ phase = "running"
    /\ nops < MaxOps
    /\ nops' = nops + 1
    /\ lastOp' = name
    /\ lastArgs' = args
    /\ lastRet' = ret
    /\ dirty' = (dirty \/ deps)
    /\ pending' = (pending \/ deps \/ other)
    /\ UNCHANGED << view, storage, phase, clock, saves, storage0, firstStore >>

\* what every operation but toggleOrderTakeaway, importBusinessData and
\* exportBusinessData leaves of the history
Plain ==
    /\ tog' = NoTog
    /\ lastText' = NoItem
    /\ UNCHANGED exported

\* lines 111-117: the new entry; its id is a fresh token
NewEntry(type, entity) ==
    [id |-> nops + 1, type |-> type, entity |-> entity, timestamp |-> clock]

\* Prepend without the slice
PrependUncut(entry, prev) == << entry >> \o prev

\* line 118: prev => [newEntry, ...prev].slice(0, 100)
Prepend(entry, prev) == Take(<< entry >> \o prev, LOG_CAP)

\* logActivity on the queued log `prev`
LogActivity(prev, type, entity) ==
    /\ activityLog' = Prepend(NewEntry(type, entity), prev)
    /\ prevLog' = << prev >>

NoLog == UNCHANGED << activityLog, prevLog >>

---------------------------------------------------------------------------
\* lines 121-129
Passwords == { "admin123", "wrong" }

\* CheckPassword taking every password
CheckPasswordAny(p) == TRUE

\* line 122: password === 'admin123'
CheckPassword(p) == p = "admin123"

login(p) ==
    /\ isAdmin' = IF CheckPassword(p) THEN TRUE ELSE isAdmin
    /\ Call("login", << p >>, CheckPassword(p), FALSE, CheckPassword(p) /\ ~isAdmin)
    /\ NoLog /\ Plain
    /\ UNCHANGED << menuItems, categories, orders, lastPlacedOrder, settings,
                    discountMilestones, isInitialized >>

logout ==
    /\ isAdmin' = FALSE
    /\ Call("logout", << >>, TRUE, FALSE, isAdmin)
    /\ NoLog /\ Plain
    /\ UNCHANGED << menuItems, categories, orders, lastPlacedOrder, settings,
                    discountMilestones, isInitialized >>

---------------------------------------------------------------------------
\* lines 131-149
Drinks == << "D" >>

ItemInputs ==
    { [id |-> "m3", name |-> "Soup", category |-> Starters],
      [id |-> "m1", name |-> "Chai", category |-> Mains] }

ItemIds == { "m1", "m3" }

addMenuItem(item) ==
    /\ menuItems' = Append(menuItems, item)
    /\ LogActivity(activityLog, "CREATE", "MENU_ITEM")
    /\ Call("addMenuItem", << item >>, TRUE, TRUE, FALSE)
    /\ Plain
    /\ UNCHANGED << categories, orders, lastPlacedOrder, settings, discountMilestones,
                    isAdmin, isInitialized >>

updateMenuItem(updatedItem) ==
    /\ menuItems' = Map(menuItems, LAMBDA item :
                          IF item.id = updatedItem.id THEN updatedItem ELSE item)
    /\ LogActivity(activityLog, "UPDATE", "MENU_ITEM")
    /\ Call("updateMenuItem", << updatedItem >>, TRUE, TRUE, FALSE)
    /\ Plain
    /\ UNCHANGED << categories, orders, lastPlacedOrder, settings, discountMilestones,
                    isAdmin, isInitialized >>

\* deleteMenuItem logging whether or not it found the item
deleteMenuItemAlwaysLogs(id) ==
    /\ menuItems' = Filter(menuItems, LAMBDA item : item.id # id)
    /\ LogActivity(activityLog, "DELETE", "MENU_ITEM")
    /\ Call("deleteMenuItem", << id >>, TRUE, TRUE, FALSE)
    /\ Plain
    /\ UNCHANGED << categories, orders, lastPlacedOrder, settings,
                    discountMilestones, isAdmin, isInitialized >>

deleteMenuItem(id) ==
    LET found == \E i \in 1..Len(menuItems) : menuItems[i].id = id
    IN /\ menuItems' = Filter(menuItems, LAMBDA item : item.id # id)
       /\ IF found THEN LogActivity(activityLog, "DELETE", "MENU_ITEM") ELSE NoLog
       /\ Call("deleteMenuItem", << id >>, TRUE, TRUE, FALSE)
       /\ Plain
       /\ UNCHANGED << categories, orders, lastPlacedOrder, settings,
                       discountMilestones, isAdmin, isInitialized >>

---------------------------------------------------------------------------
\* String.prototype.trim on a sequence of characters
RECURSIVE TrimStart(_)
TrimStart(str) ==
    IF str # <<>> /\ Head(str) = " " THEN TrimStart(Tail(str)) ELSE str

RECURSIVE TrimEnd(_)
TrimEnd(str) ==
    IF str # <<>> /\ str[Len(str)] = " "
    THEN TrimEnd(SubSeq(str, 1, Len(str) - 1)) ELSE str

Trim(str) == TrimEnd(TrimStart(str))

NameInputs == { << " ", "D", " " >>, Mains, << " " >>, << >> }

\* the new names handed to renameCategory(Starters, _): those, and one that is
\* Starters once trimmed
RenameInputs == NameInputs \cup { << "S", " " >> }

\* lines 151-159
addCategory(name) ==
    LET trimmed == Trim(name)
        added == trimmed # <<>> /\ trimmed \notin Range(categories)
    IN /\ categories' = IF added THEN Append(categories, trimmed) ELSE categories
       /\ IF added THEN LogActivity(activityLog, "CREATE", "CATEGORY") ELSE NoLog
       /\ Call("addCategory", << name >>, TRUE, added, FALSE)
       /\ Plain
       /\ UNCHANGED << menuItems, orders, lastPlacedOrder, settings,
                       discountMilestones, isAdmin, isInitialized >>

\* renameCategory with the category list left as it was
renameCategoryItemsOnly(oldName, newName) ==
    LET trimmedNew == Trim(newName)
        effective == trimmedNew # <<>> /\ trimmedNew # oldName
    IN /\ categories' = categories
       /\ menuItems' =
            IF effective
            THEN Map(menuItems, LAMBDA item :
                       IF item.category = oldName
                       THEN [item EXCEPT !.category = trimmedNew] ELSE item)
            ELSE menuItems
       /\ IF effective THEN LogActivity(activityLog, "UPDATE", "CATEGORY") ELSE NoLog
       /\ Call("renameCategory", << oldName, newName >>, TRUE, effective, FALSE)
       /\ Plain
       /\ UNCHANGED << orders, lastPlacedOrder, settings, discountMilestones, isAdmin,
                       isInitialized >>

\* renameCategory with the menu items left in the old category
renameCategoryListOnly(oldName, newName) ==
    LET trimmedNew == Trim(newName)
        effective == trimmedNew # <<>> /\ trimmedNew # oldName
    IN /\ categories' =
            IF effective
            THEN Map(categories, LAMBDA c : IF c = oldName THEN trimmedNew ELSE c)
            ELSE categories
       /\ menuItems' = menuItems
       /\ IF effective THEN LogActivity(activityLog, "UPDATE", "CATEGORY") ELSE NoLog
       /\ Call("renameCategory", << oldName, newName >>, TRUE, effective, FALSE)
       /\ Plain
       /\ UNCHANGED << orders, lastPlacedOrder, settings, discountMilestones, isAdmin,
                       isInitialized >>

\* lines 161-167
renameCategory(oldName, newName) ==
    LET trimmedNew == Trim(newName)
        effective == trimmedNew # <<>> /\ trimmedNew # oldName
    IN /\ categories' =
            IF effective
            THEN Map(categories, LAMBDA c : IF c = oldName THEN trimmedNew ELSE c)
            ELSE categories
       /\ menuItems' =
            IF effective
            THEN Map(menuItems, LAMBDA item :
                       IF item.category = oldName
                       THEN [item EXCEPT !.category = trimmedNew] ELSE item)
            ELSE menuItems
       /\ IF effective THEN LogActivity(activityLog, "UPDATE", "CATEGORY") ELSE NoLog
       /\ Call("renameCategory", << oldName, newName >>, TRUE, effective, FALSE)
       /\ Plain
       /\ UNCHANGED << orders, lastPlacedOrder, settings, discountMilestones, isAdmin,
                       isInitialized >>

\* removeCategory with the menu items of the category left in the menu
removeCategoryKeepsItems(name) ==
    /\ categories' = Filter(categories, LAMBDA c : c # name)
    /\ menuItems' = menuItems
    /\ LogActivity(activityLog, "DELETE", "CATEGORY")
    /\ Call("removeCategory", << name >>, TRUE, TRUE, FALSE)
    /\ Plain
    /\ UNCHANGED << orders, lastPlacedOrder, settings, discountMilestones, isAdmin,
                    isInitialized >>

\* lines 169-173
removeCategory(name) ==
    /\ categories' = Filter(categories, LAMBDA c : c # name)
    /\ menuItems' = Filter(menuItems, LAMBDA item : item.category # name)
    /\ LogActivity(activityLog, "DELETE", "CATEGORY")
    /\ Call("removeCategory", << name >>, TRUE, TRUE, FALSE)
    /\ Plain
    /\ UNCHANGED << orders, lastPlacedOrder, settings, discountMilestones, isAdmin,
                    isInitialized >>

---------------------------------------------------------------------------
\* [...milestones].sort((a, b) => a.threshold - b.threshold): a stable sort
InsertByThreshold(x, sorted) ==
    LET k == Cardinality({i \in 1..Len(sorted) : sorted[i].threshold <= x.threshold})
    IN SubSeq(sorted, 1, k) \o << x >> \o SubSeq(sorted, k + 1, Len(sorted))

RECURSIVE SortByThreshold(_)
SortByThreshold(ms) ==
    IF Len(ms) <= 1 THEN ms
    ELSE InsertByThreshold(ms[Len(ms)], SortByThreshold(SubSeq(ms, 1, Len(ms) - 1)))

Unsorted ==
    << [threshold |-> 2000, percentage |-> 20], [threshold |-> 500, percentage |-> 5] >>

MilestoneInputs == { Unsorted, << >> }

\* lines 175-178
updateDiscountMilestones(milestones) ==
    /\ discountMilestones' = SortByThreshold(milestones)
    /\ LogActivity(activityLog, "UPDATE", "PROMOTION")
    /\ Call("updateDiscountMilestones", << milestones >>, TRUE, TRUE, FALSE)
    /\ Plain
    /\ UNCHANGED << menuItems, categories, orders, lastPlacedOrder, settings, isAdmin,
                    isInitialized >>

NewSettings == [name |-> << "C", "A", "F", "E" >>, packingCharge |-> 20]

SettingsInputs == { NewSettings }

\* lines 180-183
updateSettings(newSettings) ==
    /\ settings' = newSettings
    /\ LogActivity(activityLog, "UPDATE", "SETTINGS")
    /\ Call("updateSettings", << newSettings >>, TRUE, TRUE, FALSE)
    /\ Plain
    /\ UNCHANGED << menuItems, categories, orders, lastPlacedOrder,
                    discountMilestones, isAdmin, isInitialized >>

---------------------------------------------------------------------------
\* What the ordering screen hands to placeOrder: the items (here their sum), and
\* a total that holds the packing charge it shows, the rendered settings', exactly
\* when the order is takeaway.  Amounts are whole numbers, on which the
\* additions of toggleOrderTakeaway are exact.
OrderInputs ==
    { [items |-> 50, isTakeaway |-> FALSE, packingCharge |-> 0, total |-> 50],
      [items |-> 50, isTakeaway |-> TRUE,
       packingCharge |-> view.settings.packingCharge,
       total |-> 50 + view.settings.packingCharge] }

\* placeOrder putting the order after the others
placeOrderAtTail(newOrderData) ==
    LET newOrder ==
          [ id |-> nops + 1, items |-> newOrderData.items, status |-> "PENDING",
            timestamp |-> clock, isTakeaway |-> newOrderData.isTakeaway,
            packingCharge |-> newOrderData.packingCharge,
            total |-> newOrderData.total ]
    IN /\ orders' = Append(orders, newOrder)
       /\ lastPlacedOrder' = << newOrder >>
       /\ Call("placeOrder", << newOrderData >>, TRUE, TRUE, TRUE)
       /\ NoLog /\ Plain
       /\ UNCHANGED << menuItems, categories, settings, discountMilestones, isAdmin,
                       isInitialized >>

\* lines 185-194; the id is a fresh token
placeOrder(newOrderData) ==
    LET newOrder ==
          [ id |-> nops + 1, items |-> newOrderData.items, status |-> "PENDING",
            timestamp |-> clock, isTakeaway |-> newOrderData.isTakeaway,
            packingCharge |-> newOrderData.packingCharge,
            total |-> newOrderData.total ]
    IN /\ orders' = << newOrder >> \o orders
       /\ lastPlacedOrder' = << newOrder >>
       /\ Call("placeOrder", << newOrderData >>, TRUE, TRUE, TRUE)
       /\ NoLog /\ Plain
       /\ UNCHANGED << menuItems, categories, settings, discountMilestones, isAdmin,
                       isInitialized >>

\* the ids a caller can name: those of the orders, and one of no order
OrderIds == { orders[i].id : i \in 1..Len(orders) } \cup { -1 }

StatusInputs == { "READY" }

\* lines 196-200
updateOrderStatus(orderId, status) ==
    /\ orders' = Map(orders, LAMBDA order :
                       IF order.id = orderId THEN [order EXCEPT !.status = status]
                       ELSE order)
    /\ Call("updateOrderStatus", << orderId, status >>, TRUE, TRUE, FALSE)
    /\ NoLog /\ Plain
    /\ UNCHANGED << menuItems, categories, lastPlacedOrder, settings,
                    discountMilestones, isAdmin, isInitialized >>

\* ToggleOrder with the charge added whichever way the order is toggled
ToggleOrderAdds(order, charge) ==
    LET nextTakeaway == ~order.isTakeaway
    IN [ order EXCEPT !.isTakeaway = nextTakeaway,
                      !.packingCharge = IF nextTakeaway THEN charge ELSE 0,
                      !.total = order.total + charge ]

\* lines 205-212: one order toggled, with `charge` the settings.packingCharge
\* the closure holds
ToggleOrder(order, charge) ==
    LET nextTakeaway == ~order.isTakeaway
        packingDiff == IF nextTakeaway THEN charge ELSE -charge
    IN [ order EXCEPT !.isTakeaway = nextTakeaway,
                      !.packingCharge = IF nextTakeaway THEN charge ELSE 0,
                      !.total = order.total + packingDiff ]

\* lines 202-216; `settings` is the rendered value
toggleOrderTakeaway(orderId) ==
    LET charge == view.settings.packingCharge
    IN /\ orders' = Map(orders, LAMBDA order :
                          IF order.id = orderId THEN ToggleOrder(order, charge)
                          ELSE order)
       /\ tog' = IF tog.n = 1 /\ tog.id = orderId
                 THEN [tog EXCEPT !.n = 2, !.same = (tog.charge = charge)]
                 ELSE [id |-> orderId, n |-> 1, charge |-> charge, same |-> TRUE,
                       before |-> orders]
       /\ Call("toggleOrderTakeaway", << orderId >>, TRUE, TRUE, FALSE)
       /\ NoLog
       /\ lastText' = NoItem
       /\ UNCHANGED << menuItems, categories, lastPlacedOrder, settings,
                       discountMilestones, isAdmin, isInitialized, exported >>

---------------------------------------------------------------------------
\* clearHistory without its setActivityLog([])
clearHistoryKeepsLog ==
    /\ LogActivity(activityLog, "SYSTEM", "SETTINGS")
    /\ Call("clearHistory", << >>, TRUE, TRUE, FALSE)
    /\ Plain
    /\ UNCHANGED << menuItems, categories, orders, lastPlacedOrder, settings,
                    discountMilestones, isAdmin, isInitialized >>

\* lines 218-221: setActivityLog([]) and then logActivity on the emptied log
clearHistory ==
    /\ LogActivity(<< >>, "SYSTEM", "SETTINGS")
    /\ Call("clearHistory", << >>, TRUE, TRUE, FALSE)
    /\ Plain
    /\ UNCHANGED << menuItems, categories, orders, lastPlacedOrder, settings,
                    discountMilestones, isAdmin, isInitialized >>

\* lines 223-231: the text exportBusinessData returns, from the rendered values v
ExportText(v) ==
    Stringify([ menuItems |-> v.menuItems, categories |-> v.categories,
                settings |-> v.settings, discountMilestones |-> v.discountMilestones ])

exportBusinessData ==
    /\ exported' = ExportText(view)
    /\ Call("exportBusinessData", << >>, TRUE, FALSE, FALSE)
    /\ NoLog
    /\ tog' = NoTog
    /\ lastText' = NoItem
    /\ UNCHANGED state

(***************************************************************************)
(* JSON values handed to importBusinessData.  An object is a record of     *)
(* the fields it has; null and a number are the two values below.          *)
(***************************************************************************)
JNull == [json |-> "null"]

JNumber == [json |-> "number"]

\* data.f throws a TypeError: data is null
AccessThrows(data) == data = JNull

\* HasField with an empty array taken for falsy
HasFieldNonEmpty(data, f) == data # JNumber /\ f \in DOMAIN data /\ data[f] # << >>

\* `if (data.f)`: the field is there (an array or an object is truthy, the empty
\* array included)
HasField(data, f) == data # JNumber /\ f \in DOMAIN data

\* the import fails: JSON.parse or the first property access throws (lines 235, 236)
ImportThrows(text) == ParseThrows(text) \/ AccessThrows(Parse(text))

\* line 236-239: the value of field f after the import
Imported(data, f, old) == IF HasField(data, f) THEN data[f] ELSE old

\* the value importBusinessData returns (lines 241, 244)
ImportResult(text) == ~ImportThrows(text)

ImportInputs ==
    { Malformed, Stringify(JNull), Stringify(JNumber),
      Stringify([discountMilestones |-> Unsorted]),
      Stringify([menuItems |-> << >>, categories |-> << Drinks >>]) }

\* lines 233-246
importBusinessData(jsonStr) ==
    /\ IF ImportThrows(jsonStr)
       THEN /\ UNCHANGED << menuItems, categories, settings, discountMilestones >>
            /\ NoLog
       ELSE LET data == Parse(jsonStr)
            IN /\ menuItems' = Imported(data, "menuItems", menuItems)
               /\ categories' = Imported(data, "categories", categories)
               /\ settings' = Imported(data, "settings", settings)
               /\ discountMilestones' =
                     Imported(data, "discountMilestones", discountMilestones)
               /\ LogActivity(activityLog, "SYSTEM", "SETTINGS")
    /\ Call("importBusinessData", << jsonStr >>, ImportResult(jsonStr),
            ~ImportThrows(jsonStr), FALSE)
    /\ lastText' = jsonStr
    /\ tog' = NoTog
    /\ UNCHANGED << orders, lastPlacedOrder, isAdmin, isInitialized, exported >>

(***************************************************************************)
(* The specification of one store, from its mount on.                      *)
(***************************************************************************)
Next ==
    \/ LoadEffect
    \/ Render
    \/ \E p \in Passwords : login(p)
    \/ logout
    \/ \E item \in ItemInputs : addMenuItem(item)
    \/ \E item \in ItemInputs : updateMenuItem(item)
    \/ \E id \in ItemIds : deleteMenuItem(id)
    \/ \E name \in NameInputs : addCategory(name)
    \/ \E name \in RenameInputs : renameCategory(Starters, name)
    \/ \E name \in { Starters, Drinks } : removeCategory(name)
    \/ \E ms \in MilestoneInputs : updateDiscountMilestones(ms)
    \/ \E s \in SettingsInputs : updateSettings(s)
    \/ \E o \in OrderInputs : placeOrder(o)
    \/ \E id \in OrderIds, st \in StatusInputs : updateOrderStatus(id, st)
    \/ \E id \in OrderIds : toggleOrderTakeaway(id)
    \/ clearHistory
    \/ exportBusinessData
    \/ \E text \in ImportInputs \cup { ExportText(view) } : importBusinessData(text)

Spec == Init /\ [][Next]_vars

(***************************************************************************)
(* Specifications of parts of the store.  Each takes the operations that   *)
(* write the variables its properties read; the operations left out leave  *)
(* those variables unchanged.                                              *)
(***************************************************************************)
\* initialization alone, from every combination of stored texts
NextLoad ==
    \/ LoadEffect
    \/ Render

SpecLoad == InitAnyStore /\ [][NextLoad]_vars

\* the orders and the settings their packing charge comes from
NextOrders ==
    \/ LoadEffect
    \/ Render
    \/ \E s \in SettingsInputs : updateSettings(s)
    \/ \E o \in OrderInputs : placeOrder(o)
    \/ \E id \in OrderIds, st \in StatusInputs : updateOrderStatus(id, st)
    \/ \E id \in OrderIds : toggleOrderTakeaway(id)

SpecOrders == Init /\ [][NextOrders]_vars

\* one writer of each persisted collection, and export and import
NextData ==
    \/ LoadEffect
    \/ Render
    \/ addMenuItem([id |-> "m3", name |-> "Soup", category |-> Starters])
    \/ addCategory(<< " ", "D", " " >>)
    \/ \E o \in OrderInputs : placeOrder(o)
    \/ \E ms \in MilestoneInputs : updateDiscountMilestones(ms)
    \/ \E s \in SettingsInputs : updateSettings(s)
    \/ clearHistory
    \/ exportBusinessData
    \/ \E text \in ImportInputs \cup { ExportText(view) } : importBusinessData(text)

SpecData == Init /\ [][NextData]_vars

\* the writers of the activity log, from a log that is full or nearly so
NextLog ==
    \/ LoadEffect
    \/ Render
    \/ addMenuItem([id |-> "m3", name |-> "Soup", category |-> Starters])
    \/ \E id \in ItemIds : deleteMenuItem(id)
    \/ \E s \in SettingsInputs : updateSettings(s)
    \/ clearHistory
    \/ \E text \in { Malformed, ExportText(view) } : importBusinessData(text)

SpecLog == InitFullLog /\ [][NextLog]_vars

\* every operation with every input of Next, for MaxCalls calls
NextTable ==
    \/ LoadEffect
    \/ Render
    \/ /\ nops < MaxCalls
       /\ \E p \in Passwords : login(p)
    \/ /\ nops < MaxCalls
       /\ logout
    \/ /\ nops < MaxCalls
       /\ \E item \in ItemInputs : addMenuItem(item)
    \/ /\ nops < MaxCalls
       /\ \E item \in ItemInputs : updateMenuItem(item)
    \/ /\ nops < MaxCalls
       /\ \E id \in ItemIds : deleteMenuItem(id)
    \/ /\ nops < MaxCalls
       /\ \E name \in NameInputs : addCategory(name)
    \/ /\ nops < MaxCalls
       /\ \E name \in RenameInputs : renameCategory(Starters, name)
    \/ /\ nops < MaxCalls
       /\ \E name \in { Starters, Drinks } : removeCategory(name)
    \/ /\ nops < MaxCalls
       /\ \E ms \in MilestoneInputs : updateDiscountMilestones(ms)
    \/ /\ nops < MaxCalls
       /\ \E s \in SettingsInputs : updateSettings(s)
    \/ /\ nops < MaxCalls
       /\ \E o \in OrderInputs : placeOrder(o)
    \/ /\ nops < MaxCalls
       /\ \E id \in OrderIds, st \in StatusInputs : updateOrderStatus(id, st)
    \/ /\ nops < MaxCalls
       /\ \E id \in OrderIds : toggleOrderTakeaway(id)
    \/ /\ nops < MaxCalls
       /\ clearHistory
    \/ /\ nops < MaxCalls
       /\ exportBusinessData
    \/ /\ nops < MaxCalls
       /\ \E text \in ImportInputs \cup { ExportText(view) } : importBusinessData(text)

SpecTable == Init /\ [][NextTable]_vars

\* the admin flag, among operations of customers and of the admin
NextAuth ==
    \/ LoadEffect
    \/ Render
    \/ \E p \in Passwords : login(p)
    \/ logout
    \/ addMenuItem([id |-> "m3", name |-> "Soup", category |-> Starters])
    \/ \E o \in OrderInputs : placeOrder(o)

SpecAuth == Init /\ [][NextAuth]_vars

\* a store, and the store that follows it on the same storage
NextReload ==
    \/ LoadEffect
    \/ Render
    \/ Remount
    \/ login("admin123")
    \/ deleteMenuItem("m1")
    \/ \E ms \in MilestoneInputs : updateDiscountMilestones(ms)
    \/ \E s \in SettingsInputs : updateSettings(s)
    \/ \E o \in OrderInputs : placeOrder(o)

SpecReload == Init /\ [][NextReload]_vars

\* the menu and the category list
NextCat ==
    \/ LoadEffect
    \/ Render
    \/ \E item \in ItemInputs : addMenuItem(item)
    \/ \E id \in ItemIds : deleteMenuItem(id)
    \/ \E name \in NameInputs : addCategory(name)
    \/ \E name \in RenameInputs : renameCategory(Starters, name)
    \/ \E name \in { Starters, Drinks } : removeCategory(name)

SpecCat == Init /\ [][NextCat]_vars

(***************************************************************************)
(* Properties.                                                             *)
(***************************************************************************)
Running == phase = "running"

\* the packing charge an order's total should hold
ChargeIn(order) == IF order.isTakeaway THEN order.packingCharge ELSE 0

\* C1: in every state of a running store, every order's total is the sum of its
\* items plus its own packingCharge when it is takeaway, and the sum of its items
\* alone when it is not.
C1_TotalHoldsOwnCharge ==
    Running => \A i \in 1..Len(orders) :
                  orders[i].total - ChargeIn(orders[i]) = orders[i].items

Sorted(ms) == \A i \in 1..(Len(ms) - 1) : ms[i].threshold <= ms[i + 1].threshold

\* C3: in every state of a running store the discount milestones are sorted
\* ascending by threshold.
C3_MilestonesSorted == Running => Sorted(discountMilestones)

\* the stored text is the JSON text of a value: data the load could have read
Stored(t) == t # NoItem /\ ~ParseThrows(t)

\* C4: the save effect writes only once the rendered state is initialized, and
\* the first write does not put a collection's pre-load empty value over stored
\* data (menu, categories, orders, activity log).
C4_NoWriteBeforeLoaded ==
    /\ saves > 0 => view.isInitialized
    /\ (saves = 1 /\ nops = 0) =>
          \A k \in {"menu", "cats", "orders", "log"} :
             (Stored(storage0[k]) /\ storage0[k] # Stringify(<< >>))
                => storage[k] # Stringify(<< >>)

\* C5: whenever a running store has no render (and so no save) pending, each of
\* the six keys holds the JSON text of the current value of its collection.
C5_StorageMirrorsState ==
    (Running /\ ~pending) =>
        /\ storage["menu"] = Stringify(menuItems)
        /\ storage["cats"] = Stringify(categories)
        /\ storage["orders"] = Stringify(orders)
        /\ storage["discounts"] = Stringify(discountMilestones)
        /\ storage["settings"] = Stringify(settings)
        /\ storage["log"] = Stringify(activityLog)

\* C5's case: a change made after initialization has been rendered and saved
C5_Witness ==
    /\ Running /\ ~pending /\ nops > 0 /\ saves > 1
    /\ storage # storage0
    /\ storage["orders"] = Stringify(orders) /\ orders # << >>

\* C6: for each key, a stored "undefined" gives the same loaded state as no stored
\* value for that key, whatever the other keys hold.
C6_UndefinedIsAbsent ==
    (phase = "loaded") =>
        \A k \in Keys :
           storage0[k] = UndefinedStr =>
              Current = LoadState(FirstRender, [storage0 EXCEPT ![k] = NoItem])

\* C7: if a JSON.parse of the load throws, the store is initialized all the same,
\* with the default menu and the default categories.
C7_ParseFailureFallsBack ==
    (phase # "mounted" /\ nops = 0 /\ FailAt(storage0) # 0) =>
        /\ isInitialized
        /\ menuItems = MENU_ITEMS
        /\ categories = CategoryValues
        /\ (Running => view.isInitialized)

\* C7's case: a later key is malformed while the menu and categories keys hold
\* data of their own, which the load had already parsed
C7_Witness ==
    /\ Running
    /\ FailAt(storage0) > 2
    /\ Stored(storage0["menu"]) /\ Stored(storage0["cats"])
    /\ menuItems = MENU_ITEMS /\ menuItems # Parse(storage0["menu"])

\* the text does not parse, or parses to something that is no object
Invalid(text) == ParseThrows(text) \/ Parse(text) \in { JNull, JNumber }

\* the step is a call of importBusinessData
ImportStep == nops' = nops + 1 /\ lastOp' = "importBusinessData"

\* C8: importBusinessData of a text that does not parse or is not valid returns
\* false and changes no collection.
C8_InvalidImportRejected ==
    [][ (ImportStep /\ Invalid(lastText')) =>
            /\ lastRet' = FALSE
            /\ UNCHANGED << menuItems, categories, settings, discountMilestones,
                            orders, activityLog >> ]_vars

NewestFirst(log) ==
    \A i \in 1..(Len(log) - 1) : log[i].timestamp >= log[i + 1].timestamp

\* C10: the activity log holds at most 100 entries, newest first, and a
\* logActivity puts its entry first and keeps the entries before it in their
\* order, dropping the last of them when they were 100.
C10_LogBounded ==
    /\ Len(activityLog) <= LOG_CAP
    /\ NewestFirst(activityLog)
    /\ prevLog # << >> =>
          /\ Len(activityLog) = Min(Len(prevLog[1]) + 1, LOG_CAP)
          /\ \A i \in 2..Len(activityLog) : activityLog[i] = prevLog[1][i - 1]

\* C10's case: an entry was added to a log of 100 entries, whose last is gone
C10_Witness ==
    /\ prevLog # << >> /\ Len(prevLog[1]) = LOG_CAP
    /\ Len(activityLog) = LOG_CAP
    /\ activityLog[LOG_CAP] = prevLog[1][LOG_CAP - 1]
    /\ activityLog[1].timestamp > activityLog[2].timestamp

\* C11: an operation called after an earlier one has returned works on the
\* earlier one's effect, in the same turn too: toggleOrderTakeaway takes the
\* packing charge of the settings as the calls so far have left them, and
\* exportBusinessData returns the text of menu, categories, settings and
\* milestones as the calls so far have left them.
C11_LaterCallSeesEarlier ==
    /\ (lastOp = "toggleOrderTakeaway" /\ firstStore = << >>) =>
           tog.charge = settings.packingCharge
    /\ (lastOp = "exportBusinessData" /\ firstStore = << >>) =>
           exported = ExportText(Current)

\* the step is a call of the operation `name`
StepOf(name) == nops' = nops + 1 /\ lastOp' = name

\* t is str without its leading and trailing spaces
IsTrimOf(t, str) ==
    /\ t # << >> => (t[1] # " " /\ t[Len(t)] # " ")
    /\ \E i \in 0..Len(str) :
          /\ i + Len(t) <= Len(str)
          /\ SubSeq(str, i + 1, i + Len(t)) = t
          /\ \A k \in 1..Len(str) : (k <= i \/ k > i + Len(t)) => str[k] = " "

Trimmed(str) ==
    CHOOSE t \in { SubSeq(str, a, b) : a \in 1..(Len(str) + 1), b \in 0..Len(str) } :
       IsTrimOf(t, str)

\* C12: renameCategory(old, new) with new, trimmed, non-empty and other than old
\* puts the trimmed name in old's place in the category list and in the category
\* of every menu item of category old, so that old is in neither afterwards, and
\* keeps every other category, every other menu item and the number of menu
\* items; with new, trimmed, empty or equal to old it changes nothing and logs
\* nothing.
C12_RenameCascades ==
    [][ StepOf("renameCategory") =>
          LET old == lastArgs'[1]
              new == Trimmed(lastArgs'[2])
          IN IF new # << >> /\ new # old
             THEN /\ Len(categories') = Len(categories)
                  /\ \A i \in 1..Len(categories) :
                        categories'[i] =
                           IF categories[i] = old THEN new ELSE categories[i]
                  /\ old \notin Range(categories')
                  /\ Len(menuItems') = Len(menuItems)
                  /\ \A i \in 1..Len(menuItems) :
                        /\ menuItems'[i] =
                              IF menuItems[i].category = old
                              THEN [menuItems[i] EXCEPT !.category = new]
                              ELSE menuItems[i]
                        /\ menuItems'[i].category # old
             ELSE UNCHANGED state ]_vars

\* C12's case: a rename to a name that needed trimming has moved a menu item of
\* the old category, and left one of another category
C12_Witness ==
    /\ lastOp = "renameCategory" /\ lastArgs = << Starters, << " ", "D", " " >> >>
    /\ Drinks \in Range(categories) /\ Starters \notin Range(categories)
    /\ \E i \in 1..Len(menuItems) : menuItems[i].category = Drinks
    /\ \E i \in 1..Len(menuItems) : menuItems[i].category = Mains
    /\ activityLog # << >> /\ activityLog[1].type = "UPDATE"
    /\ activityLog[1].entity = "CATEGORY"

\* C13: removeCategory(name) leaves in the category list the names other than
\* name, and in the menu the items whose category is not name, each in the order
\* they had, and leaves orders, discount milestones and settings as they were.
C13_RemoveCascades ==
    [][ StepOf("removeCategory") =>
          LET name == lastArgs'[1]
          IN /\ categories' = SelectSeq(categories, LAMBDA c : c # name)
             /\ menuItems' = SelectSeq(menuItems, LAMBDA item : item.category # name)
             /\ name \notin Range(categories')
             /\ \A i \in 1..Len(menuItems') : menuItems'[i].category # name
             /\ UNCHANGED << orders, discountMilestones, settings >> ]_vars

\* C13's case: the first call removed Starters from the default list and menu,
\* which keep Mains and its item
C13_Witness ==
    /\ lastOp = "removeCategory" /\ lastArgs = << Starters >> /\ nops = 1
    /\ storage0 = EmptyStore
    /\ categories = << Mains >>
    /\ menuItems = << MENU_ITEMS[2] >>

\* the type and entity of the entry each logging operation writes
LogTable ==
    [ addMenuItem |-> << "CREATE", "MENU_ITEM" >>,
      updateMenuItem |-> << "UPDATE", "MENU_ITEM" >>,
      deleteMenuItem |-> << "DELETE", "MENU_ITEM" >>,
      addCategory |-> << "CREATE", "CATEGORY" >>,
      renameCategory |-> << "UPDATE", "CATEGORY" >>,
      removeCategory |-> << "DELETE", "CATEGORY" >>,
      updateDiscountMilestones |-> << "UPDATE", "PROMOTION" >>,
      updateSettings |-> << "UPDATE", "SETTINGS" >>,
      importBusinessData |-> << "SYSTEM", "SETTINGS" >> ]

\* the operations that write no entry whatever their arguments
Silent ==
    { "placeOrder", "updateOrderStatus", "toggleOrderTakeaway", "login", "logout" }

\* the call of this step is one the table says writes an entry
ShouldLog ==
    CASE lastOp' = "deleteMenuItem" ->
            \E i \in 1..Len(menuItems) : menuItems[i].id = lastArgs'[1]
      [] lastOp' = "addCategory" ->
            /\ Trimmed(lastArgs'[1]) # << >>
            /\ Trimmed(lastArgs'[1]) \notin Range(categories)
      [] lastOp' = "renameCategory" ->
            /\ Trimmed(lastArgs'[2]) # << >>
            /\ Trimmed(lastArgs'[2]) # lastArgs'[1]
      [] lastOp' = "importBusinessData" -> lastRet'
      [] OTHER -> TRUE

\* C14: a call of an operation of the logging table, in the cases the table
\* names, puts exactly one entry of the table's type and entity before the
\* entries the log held; in the other cases, and for placeOrder,
\* updateOrderStatus, toggleOrderTakeaway, login and logout, the log stays as it
\* was.
C14_LogTable ==
    [][ (nops' = nops + 1 /\ lastOp' \in DOMAIN LogTable \cup Silent) =>
          IF lastOp' \in DOMAIN LogTable /\ ShouldLog
          THEN /\ activityLog' # << >>
               /\ activityLog'[1].type = LogTable[lastOp'][1]
               /\ activityLog'[1].entity = LogTable[lastOp'][2]
               /\ Tail(activityLog') = Take(activityLog, LOG_CAP - 1)
          ELSE activityLog' = activityLog ]_vars

\* C14's case: an updateMenuItem of an id the menu does not hold has logged its
\* entry, before entries the log already held
C14_Witness ==
    /\ lastOp = "updateMenuItem"
    /\ \A i \in 1..Len(menuItems) : menuItems[i].id # lastArgs[1].id
    /\ Len(activityLog) > 1
    /\ activityLog[1].id = nops
    /\ activityLog[1].type = "UPDATE" /\ activityLog[1].entity = "MENU_ITEM"

\* C15: clearHistory leaves the activity log holding exactly one entry, of type
\* SYSTEM and entity SETTINGS, whatever it held before, and leaves menu,
\* categories, orders, discount milestones and settings as they were.
C15_ClearLeavesOneEntry ==
    [][ StepOf("clearHistory") =>
          /\ Len(activityLog') = 1
          /\ activityLog'[1].type = "SYSTEM"
          /\ activityLog'[1].entity = "SETTINGS"
          /\ UNCHANGED << menuItems, categories, orders, discountMilestones,
                          settings >> ]_vars

\* C15's case: the first call cleared a log of 100 entries
C15_Witness ==
    /\ lastOp = "clearHistory" /\ nops = 1
    /\ Len(Parse(storage0["log"])) = LOG_CAP
    /\ Len(activityLog) = 1 /\ activityLog[1].type = "SYSTEM"
    /\ menuItems # << >> /\ orders # << >>

\* C16: login(p) returns true and sets the admin flag if p is 'admin123', and
\* returns false and changes no state for every other p; logout leaves the flag
\* false; and the flag goes from false to true in no step but a login with
\* 'admin123', so that it is true only if such a login came after the last
\* logout.
C16_AdminOnlyByPassword ==
    [][ /\ StepOf("login") =>
              IF lastArgs'[1] = "admin123"
              THEN lastRet' = TRUE /\ isAdmin' = TRUE
              ELSE lastRet' = FALSE /\ UNCHANGED state
        /\ StepOf("logout") => isAdmin' = FALSE
        /\ (isAdmin' /\ ~isAdmin) =>
              (StepOf("login") /\ lastArgs'[1] = "admin123") ]_vars

\* C16's case: a login with a wrong password, made while the flag was set by an
\* earlier login, returned false and left the flag set
C16_Witness ==
    /\ lastOp = "login" /\ lastArgs = << "wrong" >> /\ lastRet = FALSE
    /\ isAdmin /\ nops > 1

\* C17: a call of placeOrder puts one order of status PENDING before the orders
\* held, which stay as they were, and makes it lastPlacedOrder; a call of any
\* other operation keeps the number of orders, their order, and the id and
\* timestamp of each; updateOrderStatus(id, s) changes nothing but the status of
\* the orders whose id is id, and nothing at all when no order has that id.
C17_OrdersOnlyGrowAtHead ==
    [][ nops' = nops + 1 =>
          /\ IF lastOp' = "placeOrder"
             THEN /\ Len(orders') = Len(orders) + 1
                  /\ Tail(orders') = orders
                  /\ orders'[1].status = "PENDING"
                  /\ lastPlacedOrder' = << orders'[1] >>
             ELSE /\ Len(orders') = Len(orders)
                  /\ \A i \in 1..Len(orders) :
                        /\ orders'[i].id = orders[i].id
                        /\ orders'[i].timestamp = orders[i].timestamp
          /\ lastOp' = "updateOrderStatus" =>
                /\ \A i \in 1..Len(orders) :
                      orders'[i] =
                         IF orders[i].id = lastArgs'[1]
                         THEN [orders[i] EXCEPT !.status = lastArgs'[2]]
                         ELSE orders[i]
                /\ (\A i \in 1..Len(orders) : orders[i].id # lastArgs'[1]) =>
                      orders' = orders ]_vars

\* C17's case: an order was placed before a stored one, and its status then
\* updated, the stored order staying behind it as it was
C17_Witness ==
    /\ lastOp = "updateOrderStatus"
    /\ Len(orders) = 2 /\ orders[2] = OldOrder
    /\ lastArgs[1] = orders[1].id /\ orders[1].status = "READY"
    /\ lastPlacedOrder # << >> /\ lastPlacedOrder[1].status = "PENDING"
    /\ lastPlacedOrder[1].id = orders[1].id

NoDuplicates(seq) == \A i, j \in 1..Len(seq) : seq[i] = seq[j] => i = j

\* C18: from a category list that holds no name twice, after any calls of
\* addCategory, renameCategory and removeCategory the category list holds no
\* name twice.
C18_CategoriesUnique == NoDuplicates(categories)

\* C19: when a store whose last save has run is followed by a new store for the
\* same tenantId, the new store, once loaded and before any call, holds the menu,
\* categories, orders, discount milestones, settings and activity log the first
\* store held, empty ones included, the admin flag false and no lastPlacedOrder.
C19_ReloadRestores ==
    (/\ firstStore # << >> /\ firstStore[1].saved
     /\ phase # "mounted" /\ lastOp = "none") =>
        /\ menuItems = firstStore[1].values.menuItems
        /\ categories = firstStore[1].values.categories
        /\ orders = firstStore[1].values.orders
        /\ discountMilestones = firstStore[1].values.discountMilestones
        /\ settings = firstStore[1].values.settings
        /\ activityLog = firstStore[1].values.activityLog
        /\ isAdmin = FALSE
        /\ lastPlacedOrder = << >>

\* C19's case: the first store, its admin logged in, had emptied its menu and
\* its milestones; the new store runs with both empty and a log of its own
C19_Witness ==
    /\ firstStore # << >> /\ firstStore[1].saved /\ firstStore[1].isAdmin
    /\ Running /\ lastOp = "none"
    /\ menuItems = << >> /\ discountMilestones = << >>
    /\ activityLog # << >> /\ activityLog = firstStore[1].values.activityLog

\* every menu item's category is in the category list
Integrity(items, cats) ==
    \A i \in 1..Len(items) : items[i].category \in Range(cats)

\* the operations that change the category list or remove menu items
Cascades == { "renameCategory", "removeCategory", "addCategory", "deleteMenuItem" }

\* C20: if every menu item's category is in the category list before a call of
\* renameCategory, removeCategory, addCategory or deleteMenuItem, then every menu
\* item's category is in the category list after it.
C20_CascadesKeepIntegrity ==
    [][ (/\ nops' = nops + 1 /\ lastOp' \in Cascades
         /\ Integrity(menuItems, categories)) =>
            Integrity(menuItems', categories') ]_vars

\* C20's case: a rename moved the items of the old category, one of them added
\* by a call before it, to a name that was not in the list
C20_Witness ==
    /\ lastOp = "renameCategory" /\ Trim(lastArgs[2]) = Drinks
    /\ Len(menuItems) = 3
    /\ menuItems[1].category = Drinks /\ menuItems[3].category = Drinks
    /\ Integrity(menuItems, categories)

=============================================================================
